---------------------------- MODULE Spec2Model ----------------------------
(***************************************************************************)
(* A model of gearbox_check.py: the ABI decoders (decode_addresses,        *)
(* decode_credit_account_info), the contract readers built on eth_call,    *)
(* and the `position` command (cmd_position).                              *)
(*                                                                         *)
(* Python values are represented as follows.                               *)
(*   str    a sequence of one-character strings                            *)
(*   bytes  a sequence of integers 0..255                                  *)
(*   None   the record NoneV                                               *)
(*   a function that may raise returns Ok(v) or Exc                        *)
(* int.from_bytes is computed by Horner's rule on TLC integers, so the     *)
(* payloads the model draws keep every word that is read as an integer     *)
(* small; the enabled-token mask, whose 256 bits all matter, is kept as    *)
(* the set of its set bits.                                                *)
(***************************************************************************)
EXTENDS Integers, Sequences, FiniteSets, TLC

VARIABLES
    \* ---- cmd_position ----
    pc,             \* position of cmd_position
    args,           \* the command's argument list
    wallet,         \* args[0].lower()
    mi,             \* index into cms of the manager being scanned
    accounts,       \* decoded account list of the current manager
    ai,             \* index into accounts of the account being examined
    underlying,     \* underlying token of the current manager (or None)
    info,           \* decoded creditAccountInfo of the current account
    coll_tokens,    \* (token_addr, lt) pairs of the current account
    ci,             \* index into coll_tokens
    collateral,     \* collateral entries built so far for the current account
    found_accounts, \* positions found so far
    scanned,        \* managers whose account list was read
    KNOWN_TOKENS,   \* the token table: static entries plus resolved ones
    report,         \* what the display loop printed, per position
    \* ---- history of the run (not program state) ----
    faults,         \* answers so far that were not the chain's nominal answer
    calls,          \* contract calls issued: set of <<manager index, kind>>
    call_after_price, \* a contract call was issued after a price request
    listed,         \* per manager: outcome of its list-accounts call
    examined,       \* per examined account: manager, account, decoded borrower
    resolved,       \* token keys for which symbol() was called, in order
    coll_hist,      \* per position: bits called and what each call returned
    price_requests, \* the price requests issued, each a set of token keys
    \* ---- the decoders applied to drawn payloads ----
    cpc, hex_in, addrs_out, info_out

vars == <<pc, args, wallet, mi, accounts, ai, underlying, info, coll_tokens, ci,
          collateral, found_accounts, scanned, KNOWN_TOKENS, report,
          faults, calls, call_after_price, listed, examined, resolved, coll_hist,
          price_requests, cpc, hex_in, addrs_out, info_out>>

scan_vars == <<pc, args, wallet, mi, accounts, ai, underlying, info, coll_tokens,
               ci, collateral, found_accounts, scanned, KNOWN_TOKENS, report,
               faults, calls, call_after_price, listed, examined, resolved, coll_hist,
               price_requests>>

codec_vars == <<cpc, hex_in, addrs_out, info_out>>

-----------------------------------------------------------------------------
(* Python values *)

NoneV == [t |-> "None"]
Str(s) == [t |-> "str", s |-> s]
Exc == [t |-> "exc"]
Ok(v) == [t |-> "ok", v |-> v]

Min(a, b) == IF a < b THEN a ELSE b
Max(a, b) == IF a > b THEN a ELSE b

\* s[a:b] for 0 <= a, 0 <= b (Python clamps both ends to the length)
Slice(s, a, b) == SubSeq(s, Min(a, Len(s)) + 1, Min(b, Len(s)))

\* s[-n:]
Last(s, n) == SubSeq(s, Max(Len(s) - n, 0) + 1, Len(s))

\* s.zfill(n)
ZFill(s, n) == [i \in 1..(Max(n - Len(s), 0)) |-> "0"] \o s

HexLower == <<"0", "1", "2", "3", "4", "5", "6", "7",
              "8", "9", "a", "b", "c", "d", "e", "f">>

\* str.lower(), one character
LowerChar(c) ==
    CASE c = "A" -> "a" [] c = "B" -> "b" [] c = "C" -> "c"
      [] c = "D" -> "d" [] c = "E" -> "e" [] c = "F" -> "f"
      [] c = "X" -> "x" [] c = "T" -> "t" [] OTHER -> c

Lower(s) == [i \in 1..Len(s) |-> LowerChar(s[i])]

\* the value of each hexadecimal digit, either case
HexValue ==
    [c \in {HexLower[i] : i \in 1..16} \cup {"A", "B", "C", "D", "E", "F"} |->
        (CHOOSE i \in 1..16 : HexLower[i] = LowerChar(c)) - 1]

IsHexChar(c) == c \in DOMAIN HexValue
HexVal(c) == HexValue[c]

\* bytes.fromhex(s): ValueError on a non-hex character or an odd count
FromHex(s) ==
    IF Len(s) % 2 = 1 \/ \E i \in 1..Len(s) : ~IsHexChar(s[i])
    THEN Exc
    ELSE Ok([i \in 1..(Len(s) \div 2) |->
                16 * HexVal(s[2 * i - 1]) + HexVal(s[2 * i])])

\* bytes.hex()
BytesHex(b) ==
    [i \in 1..(2 * Len(b)) |->
        IF i % 2 = 1 THEN HexLower[(b[(i + 1) \div 2] \div 16) + 1]
                     ELSE HexLower[(b[i \div 2] % 16) + 1]]

\* int.from_bytes(b, "big")
RECURSIVE IntFromBytes(_)
IntFromBytes(b) ==
    IF Len(b) = 0 THEN 0
    ELSE IntFromBytes(SubSeq(b, 1, Len(b) - 1)) * 256 + b[Len(b)]

\* the set bits of int.from_bytes(b, "big"): bit k is bit k % 8 of the byte
\* k \div 8 places from the end
BitsFromBytes(b) ==
    {k \in 0..(8 * Len(b) - 1) :
        (b[Len(b) - (k \div 8)] \div (2 ^ (k % 8))) % 2 = 1}

\* int(s, 16): an optional 0x prefix, then at least one hex digit
RECURSIVE HexDigitsValue(_)
HexDigitsValue(s) ==
    IF Len(s) = 0 THEN 0
    ELSE HexDigitsValue(SubSeq(s, 1, Len(s) - 1)) * 16 + HexVal(s[Len(s)])

IntBase16(s) ==
    LET body == IF Len(s) >= 2 /\ s[1] = "0" /\ LowerChar(s[2]) = "x"
                THEN SubSeq(s, 3, Len(s)) ELSE s
    IN  IF Len(body) = 0 \/ \E i \in 1..Len(body) : ~IsHexChar(body[i])
        THEN Exc
        ELSE Ok(HexDigitsValue(body))

\* `not x` for a value that is None or a str
Falsy(x) == x.t = "None" \/ (x.t = "str" /\ Len(x.s) = 0)

-----------------------------------------------------------------------------
(* Program constants *)

WordBytes == 32
AddrBytes == 20
MinAddrsHexLen == 130
MinInfoHexLen == 514
MinWordHexLen == 66
MaskBits == 256
DefaultDecimals == 18

-----------------------------------------------------------------------------
(* decode_addresses *)

\* the loop body: the address built for element i
AddrAt(raw, offset, i) ==
    LET start == offset + WordBytes + i * WordBytes
        addr_bytes == Slice(raw, start, start + WordBytes)
    IN  <<"0", "x">> \o BytesHex(Last(addr_bytes, AddrBytes))

decode_addresses(hex_data) ==
    IF Falsy(hex_data) \/ hex_data.s = <<"0", "x">> \/ Len(hex_data.s) < MinAddrsHexLen
    THEN Ok(<<>>)
    ELSE LET r == FromHex(SubSeq(hex_data.s, 3, Len(hex_data.s)))
         IN  IF r.t = "exc" THEN Exc
             ELSE LET raw == r.v
                  IN  IF Len(raw) < 2 * WordBytes THEN Ok(<<>>)
                      ELSE LET offset == IntFromBytes(Slice(raw, 0, WordBytes))
                               length == IntFromBytes(Slice(raw, offset, offset + WordBytes))
                           IN  Ok([i \in 1..length |-> AddrAt(raw, offset, i - 1)])

\* a variant of decode_credit_account_info without the length test of
\* line 112: a short payload gives a struct of what bytes there are
decode_credit_account_info_unchecked(hex_data) ==
    IF Falsy(hex_data) THEN Ok(NoneV)
    ELSE LET r == FromHex(SubSeq(hex_data.s, 3, Len(hex_data.s)))
         IN  IF r.t = "exc" THEN Exc
             ELSE Ok([t |-> "info",
                      debt |-> IntFromBytes(Slice(r.v, 0, WordBytes)),
                      cumulative_index |-> IntFromBytes(Slice(r.v, WordBytes, 2 * WordBytes)),
                      quota_interest |-> IntFromBytes(Slice(r.v, 2 * WordBytes, 3 * WordBytes)),
                      quota_fees |-> IntFromBytes(Slice(r.v, 3 * WordBytes, 4 * WordBytes)),
                      enabled_mask |-> BitsFromBytes(Slice(r.v, 4 * WordBytes, 5 * WordBytes)),
                      flags |-> IntFromBytes(Slice(r.v, 5 * WordBytes, 6 * WordBytes)),
                      last_update |-> IntFromBytes(Slice(r.v, 6 * WordBytes, 7 * WordBytes)),
                      borrower |-> <<"0", "x">> \o
                          BytesHex(Last(Slice(r.v, 7 * WordBytes, 8 * WordBytes), AddrBytes))])

(* decode_credit_account_info *)

Field(raw, k) == Slice(raw, k * WordBytes, (k + 1) * WordBytes)

decode_credit_account_info(hex_data) ==
    IF Falsy(hex_data) \/ hex_data.s = <<"0", "x">> \/ Len(hex_data.s) < MinInfoHexLen
    THEN Ok(NoneV)
    ELSE LET r == FromHex(SubSeq(hex_data.s, 3, Len(hex_data.s)))
         IN  IF r.t = "exc" THEN Exc
             ELSE LET raw == r.v
                  IN  Ok([t |-> "info",
                          debt |-> IntFromBytes(Field(raw, 0)),
                          cumulative_index |-> IntFromBytes(Field(raw, 1)),
                          quota_interest |-> IntFromBytes(Field(raw, 2)),
                          quota_fees |-> IntFromBytes(Field(raw, 3)),
                          enabled_mask |-> BitsFromBytes(Field(raw, 4)),
                          flags |-> IntFromBytes(Field(raw, 5)),
                          last_update |-> IntFromBytes(Field(raw, 6)),
                          borrower |-> <<"0", "x">> \o
                                       BytesHex(Last(Field(raw, 7), AddrBytes))])


-----------------------------------------------------------------------------
(* eth_call and the readers built on it.  `net` is what the node did with  *)
(* the request: Exc when urlopen raised (timeout, connection error), or    *)
(* the JSON object it answered.                                            *)

Json(error, has_result, result) ==
    [t |-> "json", error |-> error, has_result |-> has_result, result |-> result]
JsonOk(s) == Json(FALSE, TRUE, Str(s))
JsonErr == Json(TRUE, FALSE, NoneV)
Transport == Exc

eth_call(net) ==
    IF net.t = "exc" THEN Exc
    ELSE IF net.error THEN Ok(NoneV)
    ELSE IF net.has_result THEN Ok(net.result)
    ELSE Ok(Str(<<"0", "x">>))

\* `not r or len(r) < 66`
NoWord(r) == Falsy(r) \/ Len(r.s) < MinWordHexLen

\* get_underlying: the three answers are those of pool(), asset() and
\* underlyingToken(); `kinds` are the calls actually made.  The caller's
\* try/except turns a raised call into underlying = None.
get_underlying(pool_net, asset_net, ut_net) ==
    LET pool_data == eth_call(pool_net)
        a == eth_call(asset_net)
        u == eth_call(ut_net)
    IN  IF pool_data.t = "exc" THEN [r |-> Exc, kinds |-> {"pool"}]
        ELSE IF NoWord(pool_data.v) THEN [r |-> Ok(NoneV), kinds |-> {"pool"}]
        ELSE IF a.t = "exc" THEN [r |-> Exc, kinds |-> {"pool", "asset"}]
        ELSE IF ~NoWord(a.v)
             THEN [r |-> Ok(Str(<<"0", "x">> \o Last(a.v.s, 2 * AddrBytes))),
                   kinds |-> {"pool", "asset"}]
        ELSE IF u.t = "exc"
             THEN [r |-> Exc, kinds |-> {"pool", "asset", "underlyingToken"}]
        ELSE IF NoWord(u.v)
             THEN [r |-> Ok(NoneV), kinds |-> {"pool", "asset", "underlyingToken"}]
        ELSE [r |-> Ok(Str(<<"0", "x">> \o Last(u.v.s, 2 * AddrBytes))),
              kinds |-> {"pool", "asset", "underlyingToken"}]

\* bytes.decode("utf-8", errors="replace") on the characters the model uses
Chr(b) == CASE b = 84 -> "T" [] b = 88 -> "X" [] b = 48 -> "0" [] OTHER -> "?"

\* read_token_symbol: Ok(None), Ok(str), or Exc when eth_call raises (the
\* call is made before the try block)
read_token_symbol(net) ==
    LET result == eth_call(net)
    IN  IF result.t = "exc" THEN Exc
        ELSE IF Falsy(result.v) \/ result.v.s = <<"0", "x">>
                \/ Len(result.v.s) < MinWordHexLen
        THEN Ok(NoneV)
        ELSE LET r == FromHex(SubSeq(result.v.s, 3, Len(result.v.s)))
             IN  IF r.t = "exc" THEN Ok(NoneV)
                 ELSE LET raw == r.v
                          offset == IntFromBytes(Slice(raw, 0, WordBytes))
                          length == IntFromBytes(Slice(raw, offset, offset + WordBytes))
                          data == Slice(raw, offset + WordBytes,
                                        offset + WordBytes + length)
                      IN  Ok(Str([i \in 1..Len(data) |-> Chr(data[i])]))

\* read_token_decimals: an int, or Exc when eth_call raises
read_token_decimals(net) ==
    LET result == eth_call(net)
    IN  IF result.t = "exc" THEN Exc
        ELSE IF Falsy(result.v) \/ result.v.s = <<"0", "x">>
                \/ Len(result.v.s) < MinWordHexLen
        THEN Ok(DefaultDecimals)
        ELSE LET n == IntBase16(result.v.s)
             IN  IF n.t = "exc" THEN Ok(DefaultDecimals) ELSE n

\* read_balance: an int, or Exc when eth_call raises
read_balance(net) ==
    LET result == eth_call(net)
    IN  IF result.t = "exc" THEN Exc
        ELSE IF Falsy(result.v) \/ result.v.s = <<"0", "x">> THEN Ok(0)
        ELSE LET n == IntBase16(result.v.s)
             IN  IF n.t = "exc" THEN Ok(0) ELSE n

\* the values of `bit` in range(256) that pass the test of line 211, in order
RECURSIVE Ascending(_)
Ascending(S) ==
    IF S = {} THEN <<>>
    ELSE LET lo == CHOOSE x \in S : \A y \in S : x <= y
         IN  <<lo>> \o Ascending(S \ {lo})

EnabledBits(enabled_mask) == Ascending({b \in enabled_mask : b < MaskBits})

\* get_collateral_tokens: `nets` gives the node's answer for each set bit.
\* r is the token list or Exc; issued lists the single-bit masks sent, each
\* as the set of its set bits.
RECURSIVE CollateralLoop(_, _, _, _)
CollateralLoop(nets, bits, tokens, issued) ==
    IF Len(bits) = 0 THEN [r |-> Ok(tokens), issued |-> issued]
    ELSE LET bit == Head(bits)
             result == eth_call(nets[bit])
             sent == Append(issued, {bit})
         IN  IF result.t = "exc" THEN [r |-> Exc, issued |-> sent]
             ELSE IF Falsy(result.v) \/ result.v.s = <<"0", "x">>
                     \/ Len(result.v.s) < MinAddrsHexLen
             THEN CollateralLoop(nets, Tail(bits), tokens, sent)
             ELSE LET r == FromHex(SubSeq(result.v.s, 3, Len(result.v.s)))
                  IN  IF r.t = "exc" THEN [r |-> Exc, issued |-> sent]
                      ELSE LET token_addr == <<"0", "x">> \o
                                   BytesHex(Last(Field(r.v, 0), AddrBytes))
                               lt == IntFromBytes(Field(r.v, 1))
                           IN  CollateralLoop(nets, Tail(bits),
                                   Append(tokens, <<token_addr, lt>>), sent)

get_collateral_tokens(nets, enabled_mask) ==
    CollateralLoop(nets, EnabledBits(enabled_mask), <<>>, <<>>)

\* get_token_name / get_token_decimals, reading the table `known`
get_token_name(known, addr) ==
    LET key == Lower(addr)
    IN  IF key \in DOMAIN known THEN known[key][1]
        ELSE Slice(addr, 0, 10) \o <<".", ".", ".">>

get_token_decimals(known, addr) ==
    LET key == Lower(addr)
    IN  IF key \in DOMAIN known THEN known[key][2] ELSE DefaultDecimals


-----------------------------------------------------------------------------
(* Configuration: RPCS, CREDIT_MANAGERS and the static part of KNOWN_TOKENS *)

NumManagers == 2

Zeros(n) == [i \in 1..n |-> "0"]
Addr40(prefix) == prefix \o Zeros(2 * AddrBytes - Len(prefix))
Ox(s) == <<"0", "x">> \o s

RPCS == {"ethereum", "arbitrum", "optimism"}

ManagerAddr(i) == Ox(Addr40(<<"c", HexLower[i + 1]>>))

CREDIT_MANAGERS(chain) ==
    IF chain = "ethereum" THEN [i \in 1..NumManagers |-> ManagerAddr(i)] ELSE <<>>

WETH == <<"c", "0", "2", "a", "a", "a", "3", "9", "b", "2", "2", "3", "f", "e", "8", "d", "0", "a", "0", "e", "5", "c", "4", "f", "2", "7", "e", "a", "d", "9", "0", "8", "3", "c", "7", "5", "6", "c", "c", "2">>
USDC == <<"a", "0", "b", "8", "6", "9", "9", "1", "c", "6", "2", "1", "8", "b", "3", "6", "c", "1", "d", "1", "9", "d", "4", "a", "2", "e", "9", "e", "b", "0", "c", "e", "3", "6", "0", "6", "e", "b", "4", "8">>

\* the entries of the static table the model uses (WETH, USDC)
StaticTokens ==
    (Ox(WETH) :> <<<<"W", "E", "T", "H">>, 18>>) @@
    (Ox(USDC) :> <<<<"U", "S", "D", "C">>, 6>>)

\* str.lower() of the chain argument
LowerChain(c) ==
    CASE c = "Ethereum" -> "ethereum" [] c = "Arbitrum" -> "arbitrum" [] OTHER -> c

-----------------------------------------------------------------------------
(* The chain the command is run against, and what the node may answer.     *)
(* Each call has the chain's nominal answer and a few others (a transport  *)
(* failure, an error reply, a malformed payload); a run draws at most      *)
(* MaxFaults answers that are not nominal.                                 *)

MaxFaults == 1

\* USDC as a node may spell it (mixed case)
USDCMixed == <<"A", "0", "b", "8", "6", "9", "9", "1", "c", "6", "2", "1", "8", "b", "3", "6", "c", "1", "d", "1", "9", "d", "4", "a", "2", "e", "9", "E", "b", "0", "c", "E", "3", "6", "0", "6", "e", "B", "4", "8">>

WalletHex == Addr40(<<"a", "b">>)
WalletMixed == <<"0", "x", "A", "B">> \o Zeros(2 * AddrBytes - 2)
OtherHex == Addr40(<<"0", "e">>)
Acct1 == Addr40(<<"a", "1">>)
Acct2 == Addr40(<<"a", "2">>)
Acct3 == Addr40(<<"a", "3">>)
Token2 == Addr40(<<"d", "2">>)
PoolHex == Addr40(<<"f", "0">>)

RECURSIVE HexOf(_)
HexOf(n) == IF n < 16 THEN <<HexLower[n + 1]>>
            ELSE HexOf(n \div 16) \o <<HexLower[(n % 16) + 1]>>

\* one 32-byte word, as 64 hex digits
Word(n) == ZFill(HexOf(n), 2 * WordBytes)
AddrWord(a) == ZFill(a, 2 * WordBytes)
Nibble(bits, j) ==
    (IF 4 * j \in bits THEN 1 ELSE 0) + (IF 4 * j + 1 \in bits THEN 2 ELSE 0)
    + (IF 4 * j + 2 \in bits THEN 4 ELSE 0) + (IF 4 * j + 3 \in bits THEN 8 ELSE 0)
MaskWord(bits) ==
    [i \in 1..(2 * WordBytes) |-> HexLower[Nibble(bits, 2 * WordBytes - i) + 1]]

RECURSIVE Concat(_)
Concat(ss) == IF Len(ss) = 0 THEN <<>> ELSE Head(ss) \o Concat(Tail(ss))

\* ABI encodings
AddrArray(as) ==
    Ox(Word(WordBytes) \o Word(Len(as)) \o Concat([i \in 1..Len(as) |-> AddrWord(as[i])]))
InfoPayload(debt, bits, borrower) ==
    Ox(Word(debt) \o Word(1) \o Word(0) \o Word(0) \o MaskWord(bits)
       \o Word(0) \o Word(7) \o AddrWord(borrower))
SymbolPayload ==
    Ox(Word(WordBytes) \o Word(2) \o <<"5", "4", "5", "8">> \o Zeros(2 * WordBytes - 4))

\* liquidation threshold, balance, decimals and price the chain reports
ChainData == [lt |-> 9000, balance |-> 2, decimals |-> 6, price |-> 2]
\* the account lists a manager may hold
ChainLists == { <<>>, <<Acct2, Acct1>>, <<Acct3>> }
\* Acct1 and Acct3 belong to the wallet, Acct2 to someone else
ChainBorrower(acct) == IF acct = Ox(Acct2) THEN OtherHex ELSE WalletHex
ChainMask(acct) == IF acct = Ox(Acct3) THEN {} ELSE {0, 255}
ChainDebt(m) == IF m % 2 = 1 THEN 5 ELSE 0
ChainUnderlying(m) == IF m % 2 = 1 THEN USDCMixed ELSE Token2
ChainToken(bit) == IF bit = 0 THEN USDC ELSE Token2

JsonNoResult == Json(FALSE, FALSE, NoneV)

ListNominal == { JsonOk(AddrArray(l)) : l \in ChainLists }
ListFaults ==
    { Transport, JsonErr, JsonNoResult, JsonOk(Ox(<<>>)),
      JsonOk(Ox(Word(WordBytes) \o Word(1) \o <<"0">>)),     \* odd digit count
      JsonOk(Ox(Word(2 * WordBytes) \o Word(1))) }            \* offset at the end

InfoNominal(m, acct) ==
    JsonOk(InfoPayload(ChainDebt(m), ChainMask(acct), ChainBorrower(acct)))
InfoFaults ==
    { Transport, JsonErr, JsonOk(Ox(Concat([i \in 1..7 |-> Word(i)]))) }

PoolNominal == JsonOk(Ox(AddrWord(PoolHex)))
TokenNominal(m) == JsonOk(Ox(AddrWord(ChainUnderlying(m))))
CallFaults == { Transport, JsonErr }

BitKinds == {"exc", "err", "ok"}
BitNet(bit, kind) ==
    CASE kind = "exc" -> Transport
      [] kind = "err" -> JsonErr
      [] OTHER -> JsonOk(Ox(AddrWord(ChainToken(bit)) \o Word(ChainData.lt)))

BalanceNominal == JsonOk(Ox(Word(ChainData.balance)))
DecimalsNominal == JsonOk(Ox(Word(ChainData.decimals)))

Cost(net, nominal) == IF net = nominal THEN 0 ELSE 1

ArgsSet ==
    { <<>>, <<WalletMixed>>, <<Ox(WalletHex), "Arbitrum">>, <<Ox(WalletHex), "solana">> }

-----------------------------------------------------------------------------
(* Valuation arithmetic.  A quotient raw / 10 ** decimals is kept exactly  *)
(* as the pair [m, e] = m * 10^(-e); a sum is the sequence of its terms.   *)
(* Every raw amount and price is >= 0, so a sum is positive exactly when   *)
(* one of its terms is.                                                    *)

Dec(m, e) == [m |-> m, e |-> e]
Positive(d) == d.m > 0
PositiveSum(ts) == \E i \in 1..Len(ts) : ts[i].m > 0

\* dict.get(key, 0)
Get(prices, key) == IF key \in DOMAIN prices THEN prices[key] ELSE 0

\* `if fa["underlying"]`
Truthy(x) == ~Falsy(x)

\* a variant of Summary without the `debt_usd > 0` test of line 408
SummaryWithoutDebtTest(underlying_price, total_coll_usd, debt_usd) ==
    IF underlying_price > 0 /\ PositiveSum(total_coll_usd)
    THEN IF debt_usd.m = 0 THEN [t |-> "ZeroDivisionError"]
         ELSE [t |-> "ratio", num |-> total_coll_usd, den |-> debt_usd]
    ELSE NoneV

\* lines 404-410: the ratio that is printed, if any
Summary(underlying_price, total_coll_usd, debt_usd) ==
    IF underlying_price > 0 /\ PositiveSum(total_coll_usd)
    THEN IF Positive(debt_usd)
         THEN [t |-> "ratio", num |-> total_coll_usd, den |-> debt_usd]
         ELSE NoneV
    ELSE NoneV

\* lines 362-371 and 387-394: one iteration of the display loop
Display(fa, prices, known) ==
    LET u == fa.underlying
        underlying_dec == IF Truthy(u) THEN get_token_decimals(known, u.s)
                          ELSE DefaultDecimals
        underlying_price == IF Truthy(u) THEN Get(prices, Lower(u.s)) ELSE 0
        debt_raw == fa.info.debt
        debt_usd == Dec(debt_raw * underlying_price, underlying_dec)
        total_coll_usd ==
            [i \in 1..Len(fa.collateral) |->
                Dec(fa.collateral[i].balance * Get(prices, Lower(fa.collateral[i].addr)),
                    fa.collateral[i].decimals)]
    IN  [underlying_price |-> underlying_price,
         underlying_name |-> IF Truthy(u) THEN get_token_name(known, u.s) ELSE <<"?">>,
         underlying_dec |-> underlying_dec,
         debt_usd |-> debt_usd,
         total_coll_usd |-> total_coll_usd,
         ratio |-> Summary(underlying_price, total_coll_usd, debt_usd)]

\* a variant of all_token_addrs that does not lower-case the addresses
all_token_addrs_as_spelt(found) ==
    {found[i].underlying.s : i \in {j \in 1..Len(found) : Truthy(found[j].underlying)}}
    \cup UNION {{found[i].collateral[k].addr : k \in 1..Len(found[i].collateral)} :
                   i \in 1..Len(found)}

\* lines 352-357: the token set of the batched price request
all_token_addrs(found) ==
    {Lower(found[i].underlying.s) : i \in {j \in 1..Len(found) : Truthy(found[j].underlying)}}
    \cup UNION {{Lower(found[i].collateral[k].addr) : k \in 1..Len(found[i].collateral)} :
                   i \in 1..Len(found)}

-----------------------------------------------------------------------------
(* cmd_position *)

Init ==
    /\ pc = "start"
    /\ args \in ArgsSet
    /\ wallet = <<>>
    /\ mi = 0 /\ ai = 0 /\ ci = 0
    /\ accounts = <<>> /\ underlying = NoneV /\ info = NoneV
    /\ coll_tokens = <<>> /\ collateral = <<>>
    /\ found_accounts = <<>> /\ scanned = 0
    /\ KNOWN_TOKENS = StaticTokens
    /\ report = <<>>
    /\ faults = 0 /\ calls = {} /\ call_after_price = FALSE
    /\ listed = <<>> /\ examined = <<>> /\ resolved = <<>> /\ coll_hist = <<>>
    /\ price_requests = <<>>
    /\ cpc = "idle" /\ hex_in = NoneV /\ addrs_out = NoneV /\ info_out = NoneV

chain_of(a) == IF Len(a) > 1 THEN LowerChain(a[2]) ELSE "ethereum"

\* lines 255-277: argument checks and the scan's initial state
Start ==
    /\ pc = "start"
    /\ IF args = <<>>
       THEN pc' = "usage" /\ UNCHANGED <<wallet, mi>>
       ELSE /\ wallet' = Lower(args[1])
            /\ IF chain_of(args) \notin RPCS
               THEN pc' = "unsupported" /\ UNCHANGED mi
               ELSE IF CREDIT_MANAGERS(chain_of(args)) = <<>>
               THEN pc' = "no_managers" /\ UNCHANGED mi
               ELSE pc' = "list" /\ mi' = 1
    /\ UNCHANGED <<args, accounts, ai, underlying, info, coll_tokens, ci, collateral,
                   found_accounts, scanned, KNOWN_TOKENS, report, faults, calls,
                   call_after_price, listed, examined, resolved, coll_hist,
                   price_requests>>
    /\ UNCHANGED codec_vars

\* contract calls of the given kinds are issued, `cost` of them answered
\* otherwise than nominally
Issue(kinds, cost) ==
    /\ faults + cost <= MaxFaults
    /\ faults' = faults + cost
    /\ calls' = calls \cup {<<mi, k>> : k \in kinds}
    /\ call_after_price' = (call_after_price \/ (kinds # {} /\ price_requests # <<>>))

\* `continue` of the manager loop / the loop's end
NextManager ==
    /\ mi' = mi + 1
    /\ pc' = IF mi + 1 > NumManagers THEN "report" ELSE "list"
    /\ accounts' = <<>> /\ ai' = 0 /\ underlying' = NoneV

\* `continue` of the account loop / its end
NextAccount ==
    IF ai < Len(accounts)
    THEN pc' = "info" /\ ai' = ai + 1 /\ UNCHANGED <<mi, accounts, underlying>>
    ELSE NextManager

\* a variant of TryListAccounts that takes a failed call for an empty list
TryListAccountsSwallowing(net) ==
    LET result == eth_call(net)
    IN  IF result.t = "exc" THEN Ok(<<>>)
        ELSE LET d == decode_addresses(result.v)
             IN  IF d.t = "exc" THEN Ok(<<>>) ELSE d

\* lines 281-282: the body of the try block
TryListAccounts(net) ==
    LET result == eth_call(net)
    IN  IF result.t = "exc" THEN Exc ELSE decode_addresses(result.v)

\* a variant of NoAccounts that never skips a manager
NoAccountsNever(accs) == FALSE

\* line 287: `if not accounts`
NoAccounts(accs) == Len(accs) = 0

\* the answers on which the list-accounts call fails: the transport raises,
\* or the payload is not a whole number of hex-encoded bytes
ListRaising == { Transport, JsonOk(Ox(Word(WordBytes) \o Word(1) \o <<"0">>)) }

\* lines 279-288
ListAccounts ==
    /\ pc = "list"
    /\ \E net \in ListNominal \cup ListFaults :
         LET dec == TryListAccounts(net)
         IN  /\ Issue({"creditAccounts"}, IF net \in ListNominal THEN 0 ELSE 1)
             /\ listed' = Append(listed,
                    [m |-> mi, failed |-> net \in ListRaising,
                     accounts |-> IF dec.t = "exc" THEN <<>> ELSE dec.v])
             /\ IF dec.t = "exc"
                THEN /\ NextManager
                     /\ UNCHANGED scanned
                ELSE /\ scanned' = scanned + 1
                     /\ IF NoAccounts(dec.v)
                        THEN NextManager
                        ELSE /\ pc' = "underlying" /\ accounts' = dec.v
                             /\ UNCHANGED <<mi, ai, underlying>>
    /\ UNCHANGED <<args, wallet, info, coll_tokens, ci, collateral, found_accounts,
                   KNOWN_TOKENS, report, examined, resolved, coll_hist,
                   price_requests>>
    /\ UNCHANGED codec_vars

\* lines 290-294
GetUnderlying ==
    /\ pc = "underlying"
    /\ \E p \in {PoolNominal} \cup CallFaults,
          a \in {TokenNominal(mi)} \cup CallFaults,
          u \in {TokenNominal(mi)} \cup CallFaults :
         LET g == get_underlying(p, a, u)
         IN  /\ underlying' = IF g.r.t = "exc" THEN NoneV ELSE g.r.v
             /\ "asset" \notin g.kinds => a = TokenNominal(mi)
             /\ "underlyingToken" \notin g.kinds => u = TokenNominal(mi)
             /\ Issue(g.kinds, Cost(p, PoolNominal) + Cost(a, TokenNominal(mi))
                               + Cost(u, TokenNominal(mi)))
    \* `for acct in accounts`
    /\ IF Len(accounts) > 0
       THEN pc' = "info" /\ ai' = 1 /\ UNCHANGED <<mi, accounts>>
       ELSE /\ mi' = mi + 1 /\ ai' = 0 /\ UNCHANGED accounts
            /\ pc' = IF mi + 1 > NumManagers THEN "report" ELSE "list"
    /\ UNCHANGED <<args, wallet, info, coll_tokens, ci, collateral,
                   found_accounts, scanned, KNOWN_TOKENS, report, listed,
                   examined, resolved, coll_hist, price_requests>>
    /\ UNCHANGED codec_vars

\* a variant of Matches that keeps every decoded account
MatchesAnyBorrower(borrower, w) == TRUE

\* the borrower test of line 304
Matches(borrower, w) == Lower(borrower) = w

\* lines 338-344
Position(acct, m, u, inf, coll) ==
    [acct |-> acct, cm |-> CREDIT_MANAGERS("ethereum")[m], underlying |-> u,
     info |-> inf, collateral |-> coll]

\* lines 298-300: the body of the try block
TryAccountInfo(net) ==
    LET r == eth_call(net)
    IN  IF r.t = "exc" THEN Exc ELSE decode_credit_account_info(r.v)

\* lines 296-305
AccountInfo ==
    /\ pc = "info"
    /\ \E net \in {InfoNominal(mi, accounts[ai])} \cup InfoFaults :
         LET d == TryAccountInfo(net)
             data == d.t = "ok" /\ d.v.t = "info"
         IN  /\ Issue({"creditAccountInfo"}, Cost(net, InfoNominal(mi, accounts[ai])))
             /\ examined' = Append(examined,
                    [m |-> mi, i |-> ai,
                     borrower |-> IF data THEN Str(d.v.borrower) ELSE NoneV])
             /\ IF data /\ Matches(d.v.borrower, wallet)
                THEN /\ info' = d.v /\ pc' = "coll"
                     /\ UNCHANGED <<mi, ai, accounts, underlying>>
                ELSE /\ NextAccount /\ info' = NoneV
    /\ UNCHANGED <<args, wallet, coll_tokens, ci, collateral, found_accounts, scanned,
                   KNOWN_TOKENS, report, listed, resolved, coll_hist,
                   price_requests>>
    /\ UNCHANGED codec_vars

\* what one collateralTokenByMask call gave: "exc", "none" or "data"
BitOutcome(net) ==
    LET result == eth_call(net)
    IN  IF result.t = "exc" THEN "exc"
        ELSE IF Falsy(result.v) \/ result.v.s = <<"0", "x">>
                \/ Len(result.v.s) < MinAddrsHexLen THEN "none"
        ELSE "data"

\* lines 307-313, and lines 338-344 when the account has no collateral token
CollateralTokens ==
    /\ pc = "coll"
    /\ \E kinds \in [info.enabled_mask -> BitKinds] :
         LET nets == [b \in info.enabled_mask |-> BitNet(b, kinds[b])]
             g == get_collateral_tokens(nets, info.enabled_mask)
             toks == IF g.r.t = "exc" THEN <<>> ELSE g.r.v
             called == {b \in info.enabled_mask :
                          \E k \in 1..Len(g.issued) : g.issued[k] = {b}}
         IN  /\ \A b \in info.enabled_mask \ called : kinds[b] = "ok"
             /\ coll_hist' = Append(coll_hist,
                    [issued |-> g.issued,
                     got |-> [b \in called |-> BitOutcome(nets[b])]])
             /\ Issue(IF Len(g.issued) = 0 THEN {} ELSE {"collateralTokenByMask"},
                      Cardinality({b \in called : kinds[b] # "ok"}))
             /\ IF Len(toks) = 0
                THEN /\ found_accounts' = Append(found_accounts,
                            Position(accounts[ai], mi, underlying, info, <<>>))
                     /\ NextAccount
                     /\ info' = NoneV /\ coll_tokens' = <<>> /\ ci' = 0
                ELSE /\ coll_tokens' = toks /\ ci' = 1 /\ pc' = "token"
                     /\ UNCHANGED <<found_accounts, info, mi, ai, accounts, underlying>>
    /\ UNCHANGED <<args, wallet, collateral, scanned, KNOWN_TOKENS, report,
                   listed, examined, resolved, price_requests>>
    /\ UNCHANGED codec_vars

\* a variant of Cached that never finds the token
CachedNever(known, key) == FALSE

\* line 323: is the token in the table?
Cached(known, key) == key \in DOMAIN known

\* line 328
Remember(known, key, sym, dec) == (key :> <<sym, dec>>) @@ known

\* lines 315-336 for one token, and lines 338-344 after the last one
CollateralEntry ==
    /\ pc = "token"
    /\ \E bnet \in {BalanceNominal} \cup CallFaults,
          snet \in {JsonOk(SymbolPayload)} \cup CallFaults,
          dnet \in {DecimalsNominal} \cup CallFaults :
         LET token_addr == coll_tokens[ci][1]
             lt == coll_tokens[ci][2]
             b == read_balance(bnet)
             bal == IF b.t = "exc" THEN 0 ELSE b.v
             key == Lower(token_addr)
             hit == Cached(KNOWN_TOKENS, key)
             s == read_token_symbol(snet)
             d == read_token_decimals(dnet)
             sym == IF hit THEN KNOWN_TOKENS[key][1]
                    ELSE IF Truthy(s.v) THEN s.v.s
                    ELSE Slice(token_addr, 0, 10) \o <<".", ".", ".">>
             dec == IF hit THEN KNOWN_TOKENS[key][2] ELSE d.v
             entry == [addr |-> token_addr, symbol |-> sym, decimals |-> dec,
                       balance |-> bal, lt |-> lt]
             sym_called == ~hit
             dec_called == ~hit /\ s.t # "exc"
             kinds == {"balanceOf"} \cup (IF sym_called THEN {"symbol"} ELSE {})
                      \cup (IF dec_called THEN {"decimals"} ELSE {})
         IN  /\ ~sym_called => snet = JsonOk(SymbolPayload)
             /\ ~dec_called => dnet = DecimalsNominal
             /\ Issue(kinds, Cost(bnet, BalanceNominal) + Cost(snet, JsonOk(SymbolPayload))
                             + Cost(dnet, DecimalsNominal))
             /\ resolved' = resolved
                    \o (IF sym_called THEN <<<<"symbol", key>>>> ELSE <<>>)
                    \o (IF dec_called THEN <<<<"decimals", key>>>> ELSE <<>>)
             /\ IF ~hit /\ (s.t = "exc" \/ d.t = "exc")
                THEN \* the exception leaves cmd_position
                     /\ pc' = "crashed"
                     /\ UNCHANGED <<KNOWN_TOKENS, collateral, found_accounts, info,
                                    coll_tokens, ci, mi, ai, accounts, underlying>>
                ELSE /\ KNOWN_TOKENS' = IF hit THEN KNOWN_TOKENS
                                        ELSE Remember(KNOWN_TOKENS, key, sym, dec)
                     /\ IF ci < Len(coll_tokens)
                        THEN /\ collateral' = Append(collateral, entry) /\ ci' = ci + 1
                             /\ UNCHANGED <<pc, found_accounts, info, coll_tokens, mi, ai,
                                            accounts, underlying>>
                        ELSE /\ found_accounts' = Append(found_accounts,
                                    Position(accounts[ai], mi, underlying, info,
                                             Append(collateral, entry)))
                             /\ NextAccount
                             /\ info' = NoneV /\ coll_tokens' = <<>> /\ ci' = 0
                             /\ collateral' = <<>>
    /\ UNCHANGED <<args, wallet, scanned, report, listed, examined,
                   coll_hist, price_requests>>
    /\ UNCHANGED codec_vars

\* fetch_prices: `coins` is the aggregator's answer, Exc when fetch raised
fetch_prices(token_addrs, coins) ==
    IF token_addrs = {} THEN [request |-> <<>>, prices |-> <<>>]
    ELSE [request |-> <<token_addrs>>,
          prices |-> IF coins.t = "exc" THEN <<>> ELSE coins.v]

\* lines 346-413
Report ==
    /\ pc = "report"
    /\ IF Len(found_accounts) = 0
       THEN pc' = "done" /\ UNCHANGED <<report, price_requests, faults>>
       ELSE LET wanted == all_token_addrs(found_accounts)
            IN  \E priced \in SUBSET wanted, ok \in BOOLEAN :
                  LET coins == IF ok THEN Ok([k \in priced |-> ChainData.price]) ELSE Exc
                      f == fetch_prices(wanted, coins)
                      cost == IF ok /\ priced = wanted THEN 0 ELSE 1
                  IN  /\ ~ok => priced = {}
                      /\ faults + cost <= MaxFaults
                      /\ faults' = faults + cost
                      /\ price_requests' = price_requests \o f.request
                      /\ report' = [i \in 1..Len(found_accounts) |->
                                       Display(found_accounts[i], f.prices, KNOWN_TOKENS)]
                      /\ pc' = "done"
    /\ UNCHANGED <<args, wallet, mi, accounts, ai, underlying, info, coll_tokens, ci,
                   collateral, found_accounts, scanned, KNOWN_TOKENS, calls,
                   call_after_price, listed, examined, resolved, coll_hist>>
    /\ UNCHANGED codec_vars

Next ==
    \/ Start
    \/ ListAccounts
    \/ GetUnderlying
    \/ AccountInfo
    \/ CollateralTokens
    \/ CollateralEntry
    \/ Report

Spec == Init /\ [][Next]_vars

-----------------------------------------------------------------------------
(* The decoders on drawn payloads *)

MaxWords == 4
MaxStructWords == 9

\* a word whose upper 12 bytes are not zero
DirtyWord == <<"f", "f">> \o Zeros(2 * (WordBytes - AddrBytes) - 2) \o Acct1

RECURSIVE Seqs(_, _)
\* the sequences of length n over S
Seqs(S, n) ==
    IF n = 0 THEN {<<>>}
    ELSE {Append(q, x) : q \in Seqs(S, n - 1), x \in S}

\* what may follow the whole words: nothing, half a byte, one byte, no hex
Tails == { <<>>, <<"0">>, <<"0", "0">>, <<"z", "z">> }

\* an offset word, a length word, then element words.  Only the words that
\* decode_addresses reads as integers are kept small, so an element word has
\* non-zero upper bytes only when the offset is 32.
AddrWords ==
    LET offs == {Word(0), Word(WordBytes), Word(2 * WordBytes), Word(3 * WordBytes)}
        lens == {Word(0), Word(1), Word(2), Word(3)}
        elems(o) == {Word(1), Word(2)}
                    \cup (IF o = Word(WordBytes) THEN {DirtyWord} ELSE {})
    IN  {<<>>} \cup {<<o>> : o \in offs}
        \cup UNION { UNION { {<<o, l>> \o e : e \in Seqs(elems(o), n)} :
                             n \in 0..(MaxWords - 2) } : o \in offs, l \in lens }

AddrInputs ==
    {NoneV, Str(<<>>)} \cup {Str(Ox(Concat(ws) \o t)) : ws \in AddrWords, t \in Tails}

StructWords(debt, borrower_word) ==
    <<Word(debt), Word(1), Word(2), Word(3), MaskWord({0, 255}), Word(5), Word(6),
      borrower_word>> \o [i \in 1..(MaxStructWords - 8) |-> Word(9)]

InfoInputs ==
    {NoneV, Str(<<>>)}
    \cup {Str(Ox(Concat(SubSeq(StructWords(d, b), 1, n)) \o t)) :
             d \in {0, 5}, b \in {AddrWord(WalletHex), DirtyWord},
             n \in 0..MaxStructWords, t \in Tails}

IdleScan ==
    /\ pc = "idle" /\ args = <<>> /\ wallet = <<>>
    /\ mi = 0 /\ ai = 0 /\ ci = 0
    /\ accounts = <<>> /\ underlying = NoneV /\ info = NoneV
    /\ coll_tokens = <<>> /\ collateral = <<>>
    /\ found_accounts = <<>> /\ scanned = 0
    /\ KNOWN_TOKENS = StaticTokens
    /\ report = <<>>
    /\ faults = 0 /\ calls = {} /\ call_after_price = FALSE
    /\ listed = <<>> /\ examined = <<>> /\ resolved = <<>> /\ coll_hist = <<>>
    /\ price_requests = <<>>

CodecInit ==
    /\ IdleScan
    /\ \/ cpc = "addresses" /\ hex_in \in AddrInputs
       \/ cpc = "info" /\ hex_in \in InfoInputs
    /\ addrs_out = NoneV /\ info_out = NoneV

DecodeAddresses ==
    /\ cpc = "addresses"
    /\ addrs_out' = decode_addresses(hex_in)
    /\ cpc' = "done"
    /\ UNCHANGED <<hex_in, info_out>>
    /\ UNCHANGED scan_vars

DecodeInfo ==
    /\ cpc = "info"
    /\ info_out' = decode_credit_account_info(hex_in)
    /\ cpc' = "done"
    /\ UNCHANGED <<hex_in, addrs_out>>
    /\ UNCHANGED scan_vars

CodecNext == DecodeAddresses \/ DecodeInfo

CodecSpec == CodecInit /\ [][CodecNext]_vars

-----------------------------------------------------------------------------
(* Properties *)

ScanOver == pc \in {"report", "done"}

\* C1: a transport failure at any single call site of a `position` scan is
\* "no data" for that call only: the scan never aborts.  (An exception that
\* leaves cmd_position is the state "crashed".)
C1_TransportFailureNeverAborts == pc # "crashed"

\* the decoded borrower of the i-th account of manager m, None when the
\* account-info call gave no data (or was not made yet)
BorrowerOf(m, i) ==
    LET S == {k \in 1..Len(examined) : examined[k].m = m /\ examined[k].i = i}
    IN  IF S = {} THEN NoneV ELSE examined[CHOOSE k \in S : TRUE].borrower

\* the account loop is past the i-th account of manager m
Completed(m, i) == m < mi \/ (m = mi /\ i < ai)

RECURSIVE ExpectedFrom(_, _)
\* the (manager, account) pairs, from (m, i) on, of the completed accounts
\* whose info decoded to data with the queried wallet as borrower
ExpectedFrom(m, i) ==
    IF m > Len(listed) THEN <<>>
    ELSE IF i > Len(listed[m].accounts) THEN ExpectedFrom(m + 1, 1)
    ELSE (IF /\ Completed(m, i)
             /\ BorrowerOf(m, i).t = "str"
             /\ Lower(BorrowerOf(m, i).s) = Lower(args[1])
          THEN <<<<ManagerAddr(m), listed[m].accounts[i]>>>>
          ELSE <<>>) \o ExpectedFrom(m, i + 1)

\* C2: the positions are exactly, in manager order and then account-list
\* order, the (manager, account) pairs whose account is in the manager's
\* decoded list, whose info decodes to data and whose borrower is the queried
\* wallet, compared case-insensitively; nothing is deduplicated by account.
\* It holds of the positions gathered so far at every point of the scan, and
\* when the scan is over every listed account has been examined.
C2_PositionsAreTheMatchingPairs ==
    /\ [k \in 1..Len(found_accounts) |-> <<found_accounts[k].cm, found_accounts[k].acct>>]
         = ExpectedFrom(1, 1)
    /\ ScanOver =>
         \A m \in 1..Len(listed) : \A i \in 1..Len(listed[m].accounts) :
            \E k \in 1..Len(examined) : examined[k].m = m /\ examined[k].i = i

\* C2's case: the same account found under two managers, after an account of
\* another borrower was passed over, for a wallet given in mixed case
C2_Witness ==
    /\ pc = "done" /\ Len(found_accounts) = 2
    /\ found_accounts[1].acct = found_accounts[2].acct
    /\ found_accounts[1].cm # found_accounts[2].cm
    /\ args[1] # wallet
    /\ \E k \in 1..Len(examined) :
          examined[k].borrower.t = "str" /\ examined[k].borrower.s # wallet

\* C3: for a manager whose list-accounts call gave zero accounts, no other
\* call is made during its turn, and it is counted as scanned.
C3_EmptyManagerOnlyListed ==
    /\ \A m \in 1..Len(listed) :
          (~listed[m].failed /\ Len(listed[m].accounts) = 0)
             => \A c \in calls : c[1] = m => c[2] = "creditAccounts"
    /\ scanned >= Cardinality({m \in 1..Len(listed) :
                                  ~listed[m].failed /\ Len(listed[m].accounts) = 0})
    /\ scanned = Cardinality({m \in 1..Len(listed) : ~listed[m].failed})

\* C3's case: an empty manager was counted, and a later manager with accounts
\* had its other calls made
C3_Witness ==
    /\ pc = "done" /\ Len(listed) = 2
    /\ ~listed[1].failed /\ Len(listed[1].accounts) = 0
    /\ Len(listed[2].accounts) > 0
    /\ <<2, "pool">> \in calls
    /\ scanned = 2

\* the collateral entries built so far: of the positions, and of the account
\* in progress
AllEntries ==
    UNION {{found_accounts[k].collateral[j] : j \in 1..Len(found_accounts[k].collateral)} :
              k \in 1..Len(found_accounts)}
    \cup {collateral[j] : j \in 1..Len(collateral)}

\* C4: symbol() and decimals() are called at most once per token key and never
\* for a key of the static table; every collateral entry carries the pair the
\* table holds for its key, as does every underlying shown whose key the table
\* holds; and an entry of the table is never changed or removed.
C4_TokenResolutionIsIdempotent ==
    /\ [](/\ \A i, j \in 1..Len(resolved) : i # j => resolved[i] # resolved[j]
          /\ \A i \in 1..Len(resolved) : resolved[i][2] \notin DOMAIN StaticTokens
          /\ \A e \in AllEntries :
                /\ Lower(e.addr) \in DOMAIN KNOWN_TOKENS
                /\ KNOWN_TOKENS[Lower(e.addr)] = <<e.symbol, e.decimals>>
          /\ \A k \in 1..Len(report) :
                LET u == found_accounts[k].underlying
                IN  (Truthy(u) /\ Lower(u.s) \in DOMAIN KNOWN_TOKENS)
                       => KNOWN_TOKENS[Lower(u.s)] =
                            <<report[k].underlying_name, report[k].underlying_dec>>)
    /\ [][\A key \in DOMAIN KNOWN_TOKENS :
             key \in DOMAIN KNOWN_TOKENS' /\ KNOWN_TOKENS'[key] = KNOWN_TOKENS[key]]_vars

\* C4's case: a token outside the static table was resolved once and then
\* looked up again for a second position
C4_Witness ==
    /\ pc = "done" /\ Len(found_accounts) = 2
    /\ \A k \in 1..2 : \E j \in 1..Len(found_accounts[k].collateral) :
          found_accounts[k].collateral[j].addr = Ox(Token2)
    /\ Cardinality({i \in 1..Len(resolved) : resolved[i] = <<"symbol", Ox(Token2)>>}) = 1

\* the lower-case keys of every present underlying and every collateral token
WantedTokens ==
    {Lower(found_accounts[k].underlying.s) :
        k \in {j \in 1..Len(found_accounts) : found_accounts[j].underlying.t = "str"
                                               /\ Len(found_accounts[j].underlying.s) > 0}}
    \cup {Lower(e.addr) : e \in AllEntries}

\* C5: at most one price request per run, only once the last manager has been
\* scanned and with no contract call after it; it asks for exactly the
\* lower-case union of the underlyings and collateral tokens, and none is
\* made when that set is empty or no position was found.
C5_OnePriceRequestAfterTheScan ==
    /\ Len(price_requests) <= 1
    /\ ~call_after_price
    /\ Len(price_requests) = 1 =>
          /\ pc = "done" /\ mi = NumManagers + 1 /\ Len(listed) = NumManagers
          /\ Len(found_accounts) > 0
          /\ price_requests[1] = WantedTokens /\ WantedTokens # {}
    /\ (pc = "done" /\ Len(found_accounts) > 0 /\ WantedTokens # {})
          => Len(price_requests) = 1

\* C5's case: two positions whose tokens overlap, one token spelt in two
\* cases, asked for in one request
C5_Witness ==
    /\ pc = "done" /\ Len(found_accounts) = 2
    /\ Len(price_requests) = 1
    /\ Cardinality(price_requests[1]) = 2
    /\ \E k \in 1..2 : found_accounts[k].underlying = Str(Ox(USDCMixed))
    /\ \E e \in AllEntries : e.addr = Ox(USDC)

\* the payload of a hex string that decodes: its length in bytes, its offset
\* word and the length word at that offset
HexDigits(h) == SubSeq(h.s, 3, Len(h.s))
WellFormed(h) ==
    h.t = "str" /\ Len(h.s) >= 2 /\ Len(h.s) % 2 = 0
    /\ \A i \in 3..Len(h.s) : IsHexChar(h.s[i])
PayloadBytes(h) == (Len(h.s) - 2) \div 2
OffsetWord(h) == HexDigitsValue(SubSeq(HexDigits(h), 1, 2 * WordBytes))
LengthWord(h) ==
    HexDigitsValue(SubSeq(HexDigits(h), 2 * OffsetWord(h) + 1,
                          2 * OffsetWord(h) + 2 * WordBytes))
ReadsPastEnd(h) ==
    \/ OffsetWord(h) + WordBytes > PayloadBytes(h)
    \/ OffsetWord(h) + WordBytes + WordBytes * LengthWord(h) > PayloadBytes(h)

\* C6: decoding an address array of at least 64 bytes whose offset or length
\* would read past the end of the buffer fails with a decode error.
C6_PastTheEndIsADecodeError ==
    (cpc = "done" /\ addrs_out # NoneV /\ WellFormed(hex_in)
     /\ PayloadBytes(hex_in) >= 2 * WordBytes /\ ReadsPastEnd(hex_in))
        => addrs_out = Exc

\* an input below the minimum payload of n bytes: absent, empty, "0x", short
TooShort(h, n) == h.t = "None" \/ Len(h.s) < 2 + 2 * n

\* the k-th 32-byte word (k from 0) of a payload, as a number
WordValue(h, k) ==
    HexDigitsValue(SubSeq(HexDigits(h), 2 * WordBytes * k + 1, 2 * WordBytes * (k + 1)))

\* C7: an input below the minimum payload decodes to the empty sequence
\* (address array, 64 bytes) or to None (account info, 256 bytes), never to an
\* exception or a struct; a struct payload of at least 256 bytes decodes to
\* its eight consecutive big-endian words, the borrower being the low 20
\* bytes of the eighth.
C7_ShortInputsAndStructLayout ==
    /\ (addrs_out # NoneV /\ TooShort(hex_in, 2 * WordBytes)) => addrs_out = Ok(<<>>)
    /\ (info_out # NoneV /\ TooShort(hex_in, 8 * WordBytes)) => info_out = Ok(NoneV)
    /\ (info_out # NoneV /\ ~TooShort(hex_in, 8 * WordBytes) /\ WellFormed(hex_in)) =>
          /\ info_out.t = "ok" /\ info_out.v.t = "info"
          /\ info_out.v.debt = WordValue(hex_in, 0)
          /\ info_out.v.cumulative_index = WordValue(hex_in, 1)
          /\ info_out.v.quota_interest = WordValue(hex_in, 2)
          /\ info_out.v.quota_fees = WordValue(hex_in, 3)
          /\ MaskWord(info_out.v.enabled_mask)
                = SubSeq(HexDigits(hex_in), 8 * WordBytes + 1, 10 * WordBytes)
          /\ info_out.v.flags = WordValue(hex_in, 5)
          /\ info_out.v.last_update = WordValue(hex_in, 6)
          /\ info_out.v.borrower =
                Ox(SubSeq(HexDigits(hex_in), 16 * WordBytes - 2 * AddrBytes + 1,
                          16 * WordBytes))

\* C7's case: a struct of nine words whose eighth has non-zero upper bytes
C7_Witness ==
    /\ cpc = "done" /\ info_out # NoneV
    /\ WellFormed(hex_in) /\ PayloadBytes(hex_in) > 8 * WordBytes
    /\ info_out.v.debt = 5
    /\ info_out.v.borrower = Ox(Acct1)

\* C8: a position's collateral ratio is reported exactly when its USD debt and
\* its USD collateral are both positive, and is then collateral / debt; with
\* a zero raw debt or an absent or unpriced underlying none is reported, and
\* nothing is divided by zero.
C8_RatioOnlyWhenBothPositive ==
    \A k \in 1..Len(report) :
       LET r == report[k]
       IN  /\ r.ratio.t \in {"ratio", "None"}
           /\ r.ratio.t = "ratio" <=>
                 (Positive(r.debt_usd) /\ PositiveSum(r.total_coll_usd))
           /\ r.ratio.t = "ratio" =>
                 /\ r.ratio.num = r.total_coll_usd /\ r.ratio.den = r.debt_usd
                 /\ r.ratio.den.m # 0
           /\ (found_accounts[k].info.debt = 0 \/ ~Truthy(found_accounts[k].underlying)
               \/ r.underlying_price = 0) => r.ratio.t = "None"

\* C8's case: one position with a ratio, and one with a priced underlying and
\* collateral of positive value but no debt
C8_Witness ==
    /\ pc = "done"
    /\ \E k \in 1..Len(report) : report[k].ratio.t = "ratio"
    /\ \E k \in 1..Len(report) :
          /\ report[k].underlying_price > 0
          /\ PositiveSum(report[k].total_coll_usd)
          /\ found_accounts[k].info.debt = 0
          /\ report[k].ratio.t = "None"

\* C9: for a retained account the collateral-token call is made for exactly
\* the set bits of its mask, in ascending order, each with its single-bit
\* mask; and every bit whose call returned data has its entry in the
\* position, in ascending bit order, whatever happened to the other bits.
C9_OneBitFailureDropsOnlyThatBit ==
    \A k \in 1..Len(found_accounts) :
       LET h == coll_hist[k]
           bits == Ascending(found_accounts[k].info.enabled_mask)
           data == SelectSeq(bits, LAMBDA b : b \in DOMAIN h.got /\ h.got[b] = "data")
       IN  /\ h.issued = [j \in 1..Len(bits) |-> {bits[j]}]
           /\ [j \in 1..Len(found_accounts[k].collateral) |->
                  found_accounts[k].collateral[j].addr]
                = [j \in 1..Len(data) |-> Ox(ChainToken(data[j]))]

\* C10: a manager whose list-accounts call fails is skipped: no other call
\* during its turn, not counted as scanned; the managers are listed in
\* configuration order, all of them once the scan is over; and the scanned
\* count is the number of managers whose list call did not fail, never more
\* than the number configured.
C10_FailedManagerIsSkipped ==
    /\ \A m \in 1..Len(listed) :
          /\ listed[m].m = m
          /\ listed[m].failed => \A c \in calls : c[1] = m => c[2] = "creditAccounts"
    /\ scanned = Cardinality({m \in 1..Len(listed) : ~listed[m].failed})
    /\ scanned <= NumManagers
    /\ pc = "list" => Len(listed) = mi - 1
    /\ ScanOver => Len(listed) = NumManagers

\* C10's case: the first manager's list call failed and the second manager
\* was scanned and gave a position
C10_Witness ==
    /\ pc = "done" /\ Len(listed) = 2
    /\ listed[1].failed /\ ~listed[2].failed
    /\ scanned = 1
    /\ Len(found_accounts) > 0 /\ found_accounts[1].cm = ManagerAddr(2)

\* a token's own decimal count: its entry of the static table, otherwise what
\* its decimals() answers on the chain
OwnDecimals(key) ==
    IF key \in DOMAIN StaticTokens THEN StaticTokens[key][2] ELSE ChainData.decimals

\* C11: for every reported position with an underlying, the debt is converted
\* with the underlying token's own decimal count (when every call of the run
\* was answered), and the decimals and symbol shown for the underlying are
\* those the report would use had no collateral token been resolved during
\* the scan, i.e. read from the static table alone.
C11_UnderlyingUsesItsOwnDecimals ==
    \A k \in 1..Len(report) :
       LET u == found_accounts[k].underlying
       IN  Truthy(u) =>
              /\ faults = 0 =>
                    /\ report[k].underlying_dec = OwnDecimals(Lower(u.s))
                    /\ report[k].debt_usd.e = OwnDecimals(Lower(u.s))
              /\ report[k].underlying_dec = get_token_decimals(StaticTokens, u.s)
              /\ report[k].underlying_name = get_token_name(StaticTokens, u.s)

=============================================================================
